---- MODULE Spec2Model ----
(***************************************************************************)
(* Crypto Macro Heat dashboard (src/app.py).                               *)
(*                                                                         *)
(* The script is re-executed from top to bottom on every interaction.     *)
(* load_data() is memoized by st.cache_data; the Refresh button clears    *)
(* the memo.  load_data() turns the upstream daily BTC / ETH closes and   *)
(* the Fear & Greed samples into a weekly table.                          *)
(*                                                                         *)
(* Numbers are exact rationals <<numerator, denominator>> in lowest terms *)
(* (denominator > 0); binary floating-point rounding is not modelled.     *)
(* NaN ("undefined") is the empty tuple <<>>, distinct from every number. *)
(* volatility is carried as its square, which orders the same way.        *)
(* Dates are day numbers; the Fridays are the multiples of 7.             *)
(***************************************************************************)
EXTENDS Integers, Sequences, FiniteSets, TLC

\* ---------------------------------------------------------------- constants
WEEKLY_VOL_WINDOW == 26
WEEKLY_TREND_WINDOW == 52
FG_OVERHEAT == 80
MIN_FG_WEEKS == 3
STRETCH_THRESHOLD == <<1, 2>>
ANNUALIZE == 52
NEUTRAL_FNG == 50
WARM_STRETCH_PCT == 20
WARM_FNG == 60
TAIL_ROWS == 10
DAYS_PER_WEEK == 7
W_BTC == <<65, 100>>
W_ETH == <<35, 100>>

\* ------------------------------------------------------------------- bounds
\* Weeks of upstream history that exist when the dashboard is opened on an
\* existing history.
BaseWeeks == 55
\* Days that pass afterwards when it was opened on an existing history ...
HistDays == 1
\* ... and when it was opened before any upstream data existed.
MaxDays == 2

\* Closes published upstream, as <<btc close, eth close>>.
PriceLo == <<1, 2>>
PriceHi == <<3, 6>>
PriceChoices == {PriceLo, PriceHi}
\* Fear & Greed values published upstream.
FngChoices == {60, 80}
\* Existing histories: the number of trailing weeks quoted at PriceHi (the
\* earlier ones are quoted at PriceLo), and the number of trailing weeks for
\* which the sentiment feed has no sample yet.
Histories ==
    {[rally |-> 0, lag |-> 0], [rally |-> 1, lag |-> 0], [rally |-> 1, lag |-> 1],
     [rally |-> 26, lag |-> 0], [rally |-> 39, lag |-> 0]}
\* Irregular weeks of an existing history: no daily row at all, a BTC row
\* without an ETH row, the first sentiment sample, a week without sample.
BaseShape == [skip |-> 4, half |-> 6, fngFirst |-> 3, fngHole |-> 9]

\* ---------------------------------------------------------------- rationals
NaN == <<>>

Abs(n) == IF n < 0 THEN -n ELSE n

RECURSIVE GCD(_, _)
GCD(a, b) == IF b = 0 THEN a ELSE GCD(b, a % b)

Rat(n, d) ==
    LET g == GCD(Abs(n), d)
    IN  <<n \div g, d \div g>>

RatInt(n) == <<n, 1>>
RatAdd(a, b) == Rat(a[1] * b[2] + b[1] * a[2], a[2] * b[2])
RatSub(a, b) == Rat(a[1] * b[2] - b[1] * a[2], a[2] * b[2])
RatMul(a, b) == Rat(a[1] * b[1], a[2] * b[2])
\* a / b for b > 0
RatDiv(a, b) == Rat(a[1] * b[2], a[2] * b[1])
RatLT(a, b) == a[1] * b[2] < b[1] * a[2]
RatLE(a, b) == a[1] * b[2] <= b[1] * a[2]

\* Variant of GE in which a NaN operand passes the comparison.
GE_NaNPasses(a, b) == a = NaN \/ b = NaN \/ RatLE(b, a)

\* Comparisons as pandas / Python evaluate them: false when an operand is NaN.
GE(a, b) == a # NaN /\ b # NaN /\ RatLE(b, a)
GT(a, b) == a # NaN /\ b # NaN /\ RatLT(b, a)

SetMax(S) == CHOOSE x \in S : \A y \in S : y <= x
SetMin(S) == CHOOSE x \in S : \A y \in S : x <= y

\* ----------------------------------------------------------- pandas helpers
\* A column given by a rule, as the sequence of its values.
Series(f) == f \o <<>>

\* Label of the W-FRI bin of a date: the first Friday on or after it.
WeekEnd(d) == ((d + DAYS_PER_WEEK - 1) \div DAYS_PER_WEEK) * DAYS_PER_WEEK

\* resample("W-FRI"): one bin per week from the first to the last date.
BinSeq(dates) ==
    IF dates = {} THEN <<>>
    ELSE LET first == WeekEnd(SetMin(dates))
             last == WeekEnd(SetMax(dates))
         IN  Series([i \in 1..((last - first) \div DAYS_PER_WEEK + 1) |->
                        first + DAYS_PER_WEEK * (i - 1)])

DaysOfBin(series, w) == {d \in (w - DAYS_PER_WEEK + 1)..w : d \in DOMAIN series}

\* Variant of ResampleLast that takes the first value of the bin (.first()).
ResampleLast_First(series, w) ==
    LET valid == {d \in DaysOfBin(series, w) : series[d] # NaN}
    IN  IF valid = {} THEN NaN ELSE series[SetMin(valid)]

\* .last(): the last value of the bin that is not NaN, NaN if there is none.
ResampleLast(series, w) ==
    LET valid == {d \in DaysOfBin(series, w) : series[d] # NaN}
    IN  IF valid = {} THEN NaN ELSE series[SetMax(valid)]

RECURSIVE IntSum(_, _)
IntSum(f, S) ==
    IF S = {} THEN 0
    ELSE LET x == SetMax(S) IN f[x] + IntSum(f, S \ {x})

\* .mean(): the mean of the samples of the bin, NaN for a bin without sample.
ResampleMean(series, w) ==
    LET days == DaysOfBin(series, w)
    IN  IF days = {} THEN NaN ELSE Rat(IntSum(series, days), Cardinality(days))

\* .ffill(): NaN replaced by the last earlier value that is not NaN.
RECURSIVE FfillFrom(_, _, _)
FfillFrom(col, i, out) ==
    IF i > Len(col) THEN out
    ELSE LET now == IF col[i] = NaN /\ i > 1 THEN out[i - 1] ELSE col[i]
         IN  FfillFrom(col, i + 1, Append(out, now))

Ffill(col) == FfillFrom(col, 1, <<>>)

\* .dropna(): the rows without NaN.  The volume column is a .sum(), which is
\* 0 and never NaN for an empty bin, so the index column alone decides.
DropNa(rows) == SelectSeq(rows, LAMBDA r : r.index # NaN)

\* Running sums, as the rolling aggregations keep them: sums[i] is the sum of
\* the values of col[1..i] that are not NaN.
RECURSIVE CumSumFrom(_, _, _)
CumSumFrom(col, i, sums) ==
    IF i > Len(col) THEN sums
    ELSE LET before == IF i = 1 THEN RatInt(0) ELSE sums[i - 1]
             now == IF col[i] = NaN THEN before ELSE RatAdd(before, col[i])
         IN  CumSumFrom(col, i + 1, Append(sums, now))

CumSum(col) == CumSumFrom(col, 1, <<>>)

\* counts[i] is the number of values of col[1..i] that are not NaN.
RECURSIVE CumCountFrom(_, _, _)
CumCountFrom(col, i, counts) ==
    IF i > Len(col) THEN counts
    ELSE LET before == IF i = 1 THEN 0 ELSE counts[i - 1]
             now == IF col[i] = NaN THEN before ELSE before + 1
         IN  CumCountFrom(col, i + 1, Append(counts, now))

CumCount(col) == CumCountFrom(col, 1, <<>>)

Squares(col) ==
    Series([i \in DOMAIN col |-> IF col[i] = NaN THEN NaN ELSE RatMul(col[i], col[i])])

\* First row of the window of `window` rows that ends at row i.
WindowStart(i, window) == IF i - window + 1 < 1 THEN 1 ELSE i - window + 1

WindowSum(sums, a, i) == IF a = 1 THEN sums[i] ELSE RatSub(sums[i], sums[a - 1])
WindowCount(counts, a, i) == IF a = 1 THEN counts[i] ELSE counts[i] - counts[a - 1]

\* .pct_change()
PctChange(col) ==
    Series([i \in DOMAIN col |->
        IF i = 1 THEN NaN
        ELSE RatSub(RatDiv(col[i], col[i - 1]), RatInt(1))])

\* Variant of RollingMean with min_periods = 1: the mean of the values of the
\* window that are not NaN, as soon as there is one.
RollingMean_MinPeriodsOne(col, window) ==
    LET sums == CumSum(col)
        counts == CumCount(col)
    IN  Series([i \in DOMAIN col |->
            LET a == WindowStart(i, window)
                n == WindowCount(counts, a, i)
            IN  IF n < 1 THEN NaN
                ELSE RatDiv(WindowSum(sums, a, i), RatInt(n))])

\* .rolling(window).mean(): min_periods defaults to the window, so the value
\* is NaN unless the window holds `window` values that are not NaN.
RollingMean(col, window) ==
    LET sums == CumSum(col)
        counts == CumCount(col)
    IN  Series([i \in DOMAIN col |->
            LET a == WindowStart(i, window)
                n == WindowCount(counts, a, i)
            IN  IF n < window THEN NaN
                ELSE RatDiv(WindowSum(sums, a, i), RatInt(n))])

\* Variant of RollingStdSq with the population deviation (ddof = 0).
RollingStdSq_Population(col, window) ==
    LET sums == CumSum(col)
        sumsq == CumSum(Squares(col))
        counts == CumCount(col)
    IN  Series([i \in DOMAIN col |->
            LET a == WindowStart(i, window)
                n == WindowCount(counts, a, i)
                s1 == WindowSum(sums, a, i)
                s2 == WindowSum(sumsq, a, i)
            IN  IF n < window THEN NaN
                ELSE RatDiv(RatSub(RatMul(RatInt(n), s2), RatMul(s1, s1)),
                            RatInt(n * n))])

\* Square of .rolling(window).std() (sample standard deviation, ddof = 1).
RollingStdSq(col, window) ==
    LET sums == CumSum(col)
        sumsq == CumSum(Squares(col))
        counts == CumCount(col)
    IN  Series([i \in DOMAIN col |->
            LET a == WindowStart(i, window)
                n == WindowCount(counts, a, i)
                s1 == WindowSum(sums, a, i)
                s2 == WindowSum(sumsq, a, i)
            IN  IF n < window THEN NaN
                ELSE RatDiv(RatSub(RatMul(RatInt(n), s2), RatMul(s1, s1)),
                            RatInt(n * (n - 1)))])

\* sorted with v inserted in order.
Insert(sorted, v) ==
    SelectSeq(sorted, LAMBDA x : RatLE(x, v)) \o <<v>>
        \o SelectSeq(sorted, LAMBDA x : RatLT(v, x))

\* The two middle values of a sorted sequence (the same one twice when its
\* length is odd), NaN when it is empty.
Middle(sorted) ==
    LET n == Len(sorted)
    IN  IF n = 0 THEN NaN ELSE <<sorted[(n + 1) \div 2], sorted[n \div 2 + 1]>>

\* .expanding().median() of a column of squares: for every row the middle
\* values of the values seen so far that are not NaN; the median is the mean
\* of their square roots.
RECURSIVE ExpandingMedianFrom(_, _, _, _)
ExpandingMedianFrom(col, i, sorted, out) ==
    IF i > Len(col) THEN out
    ELSE LET now == IF col[i] = NaN THEN sorted ELSE Insert(sorted, col[i])
         IN  ExpandingMedianFrom(col, i + 1, now, Append(out, Middle(now)))

ExpandingMedian(col) == ExpandingMedianFrom(col, 1, <<>>, <<>>)

\* sqrt(x) > (sqrt(m[1]) + sqrt(m[2])) / 2, false when an operand is NaN.
GtMedian(x, m) ==
    /\ x # NaN
    /\ m # NaN
    /\ IF RatLE(m[2], x) THEN RatLT(m[1], x)
       ELSE IF RatLE(x, m[1]) THEN FALSE
       ELSE LET t == RatSub(RatMul(RatInt(4), x), RatAdd(m[1], m[2]))
            IN  /\ RatLT(RatInt(0), t)
                /\ RatLT(RatMul(RatInt(4), RatMul(m[1], m[2])), RatMul(t, t))

\* ------------------------------------------------------------------ load_data
\* daily["index"] = 0.65 * daily["btc"] + 0.35 * daily["eth"]: daily has the
\* dates of the BTC history; ETH is aligned to them.
DailyIndex(btcS, ethS) ==
    [d \in DOMAIN btcS |->
        IF d \in DOMAIN ethS
        THEN RatAdd(RatMul(W_BTC, RatInt(btcS[d])), RatMul(W_ETH, RatInt(ethS[d])))
        ELSE NaN]

\* weekly["index"] after dropna(): rows [week_end, index].
WeeklyIndex(btcS, ethS) ==
    LET daily == DailyIndex(btcS, ethS)
        bins == BinSeq(DOMAIN daily)
    IN  DropNa([i \in DOMAIN bins |->
                   [week_end |-> bins[i], index |-> ResampleLast(daily, bins[i])]])

\* fng["value"].resample("W-FRI").mean().ffill(): the labels of its bins and
\* their values.
FngWeekly(fngS) ==
    LET bins == BinSeq(DOMAIN fngS)
    IN  [labels |-> bins,
         values |-> Ffill(Series([i \in DOMAIN bins |-> ResampleMean(fngS, bins[i])]))]

\* The value a weekly series has at a label, NaN if it has no such label
\* (alignment on assignment to a column).
Reindex(series, w) ==
    IF series.labels # <<>> /\ series.labels[1] <= w
                            /\ w <= series.labels[Len(series.labels)]
    THEN series.values[(w - series.labels[1]) \div DAYS_PER_WEEK + 1]
    ELSE NaN

\* fetch_fng() raises when the request fails, and also when the feed holds no
\* sample (the frame has no "timestamp" column).
FetchRaises(fngOk, fngS) == ~fngOk \/ DOMAIN fngS = {}

\* weekly["fng"]: the weekly series aligned to the labels of the table (NaN
\* for a label the series does not have), or 50 when the try block raised.
FngColumn(labels, fngOk, fngS) ==
    IF FetchRaises(fngOk, fngS)
    THEN Series([i \in DOMAIN labels |-> RatInt(NEUTRAL_FNG)])
    ELSE LET fw == FngWeekly(fngS)
         IN  Series([i \in DOMAIN labels |-> Reindex(fw, labels[i])])

Volatility(returns) ==
    LET sq == RollingStdSq(returns, WEEKLY_VOL_WINDOW)
    IN  Series([i \in DOMAIN returns |->
            IF sq[i] = NaN THEN NaN ELSE RatMul(sq[i], RatInt(ANNUALIZE))])

Stretch(index, trend) ==
    Series([i \in DOMAIN index |->
        IF trend[i] = NaN THEN NaN
        ELSE RatDiv(RatSub(index[i], trend[i]), trend[i])])

\* Variant of Overheat whose sentiment condition is strict (> 80).
Overheat_StrictSentiment(fng, stretch, volatility) ==
    LET fgmean == RollingMean(fng, MIN_FG_WEEKS)
        median == ExpandingMedian(volatility)
    IN  Series([i \in DOMAIN fng |->
            /\ GT(fgmean[i], RatInt(FG_OVERHEAT))
            /\ GE(stretch[i], STRETCH_THRESHOLD)
            /\ GtMedian(volatility[i], median[i])])

Overheat(fng, stretch, volatility) ==
    LET fgmean == RollingMean(fng, MIN_FG_WEEKS)
        median == ExpandingMedian(volatility)
    IN  Series([i \in DOMAIN fng |->
            /\ GE(fgmean[i], RatInt(FG_OVERHEAT))
            /\ GE(stretch[i], STRETCH_THRESHOLD)
            /\ GtMedian(volatility[i], median[i])])

load_data(btcS, ethS, fngOk, fngS) ==
    LET kept == WeeklyIndex(btcS, ethS)
        index == Series([i \in DOMAIN kept |-> kept[i].index])
        labels == Series([i \in DOMAIN kept |-> kept[i].week_end])
        returns == PctChange(index)
        volatility == Volatility(returns)
        fng == FngColumn(labels, fngOk, fngS)
        trend == RollingMean(index, WEEKLY_TREND_WINDOW)
        stretch == Stretch(index, trend)
        overheat == Overheat(fng, stretch, volatility)
    IN  Series([i \in DOMAIN kept |->
                   [week_end |-> labels[i], index |-> index[i], returns |-> returns[i],
                    volatility |-> volatility[i], fng |-> fng[i], trend |-> trend[i],
                    stretch |-> stretch[i], overheat |-> overheat[i]]])

\* -------------------------------------------------------------------- script
\* Variant of Status whose WARM thresholds are inclusive (>= 20, >= 60).
Status_Inclusive(latest) ==
    LET stretch_pct == IF latest.stretch = NaN THEN NaN
                       ELSE RatMul(latest.stretch, RatInt(100))
        fgi == latest.fng
    IN  IF latest.overheat THEN "OVERHEATED"
        ELSE IF GE(stretch_pct, RatInt(WARM_STRETCH_PCT)) /\ GE(fgi, RatInt(WARM_FNG))
             THEN "WARM"
        ELSE "COOL"

\* Lines 96-106: the status shown for the last row of the table.
Status(latest) ==
    LET stretch_pct == IF latest.stretch = NaN THEN NaN
                       ELSE RatMul(latest.stretch, RatInt(100))
        fgi == latest.fng
    IN  IF latest.overheat THEN "OVERHEATED"
        ELSE IF GT(stretch_pct, RatInt(WARM_STRETCH_PCT)) /\ GT(fgi, RatInt(WARM_FNG))
             THEN "WARM"
        ELSE "COOL"

\* weekly.iloc[-1] raises IndexError on a table without rows.
IlocLastRaises(table) == Len(table) = 0

\* weekly[weekly["overheat"]].tail(10)
TailRows(rows, k) ==
    IF Len(rows) <= k THEN rows ELSE SubSeq(rows, Len(rows) - k + 1, Len(rows))

RecentOverheat(table) == TailRows(SelectSeq(table, LAMBDA r : r.overheat), TAIL_ROWS)

\* --------------------------------------------------------------------- state
VARIABLES
    btc,      \* upstream BTC-USD history: date -> close
    eth,      \* upstream ETH-USD history: date -> close
    fng,      \* upstream Fear & Greed feed: date -> value
    today,    \* the current date
    cache,    \* st.cache_data entry of load_data: <<>> or <<table>>
    fetched,  \* inputs read by the latest run of load_data's body: <<>> or <<record>>
    clicked,  \* value of st.button("Refresh Data") in the latest execution
    weekly,   \* the table the latest execution got from load_data()
    outcome,  \* "idle" before the first execution, then "ok" or "IndexError"
    status,   \* status shown by the latest execution ("" if none was shown)
    report    \* rows shown under "Recent Overheating Weeks"

vars == <<btc, eth, fng, today, cache, fetched, clicked, weekly, outcome, status, report>>

Empty == <<>>

BaseClose(k, rally) == IF k > BaseWeeks - rally THEN PriceHi ELSE PriceLo

\* The daily rows of an existing history are Thursdays.
BaseDate(k) == DAYS_PER_WEEK * k - 1

BaseBtc(h) ==
    [d \in {BaseDate(k) : k \in (1..BaseWeeks) \ {BaseShape.skip}} |->
        BaseClose((d + 1) \div DAYS_PER_WEEK, h.rally)[1]]

BaseEth(h) ==
    [d \in {BaseDate(k) : k \in (1..BaseWeeks) \ {BaseShape.skip, BaseShape.half}} |->
        BaseClose((d + 1) \div DAYS_PER_WEEK, h.rally)[2]]

BaseFng(h) ==
    [d \in {BaseDate(k) :
              k \in (BaseShape.fngFirst..(BaseWeeks - h.lag)) \ {BaseShape.fngHole}} |->
        FG_OVERHEAT]

\* The date on which the dashboard is opened: a Thursday.
FreshStart == BaseDate(1)
HistStart == BaseDate(BaseWeeks)

Init ==
    /\ \/ /\ btc = Empty
          /\ eth = Empty
          /\ fng = Empty
          /\ today = FreshStart
       \/ \E h \in Histories :
              /\ btc = BaseBtc(h)
              /\ eth = BaseEth(h)
              /\ fng = BaseFng(h)
              /\ today = HistStart
    /\ cache = <<>>
    /\ fetched = <<>>
    /\ clicked = FALSE
    /\ weekly = <<>>
    /\ outcome = "idle"
    /\ status = ""
    /\ report = <<>>

\* What the upstream sources may publish on one day: nothing, the day's
\* closes (for both assets, or for BTC only), or a sentiment sample.
NoEvent == [btc |-> <<>>, eth |-> <<>>, fng |-> <<>>]

DayEvents ==
    {NoEvent}
        \cup {[NoEvent EXCEPT !.btc = <<PriceLo[1]>>]}
        \cup {[NoEvent EXCEPT !.btc = <<c[1]>>, !.eth = <<c[2]>>] : c \in PriceChoices}
        \cup {[NoEvent EXCEPT !.fng = <<v>>] : v \in FngChoices}

Put(series, d, v) == IF v = <<>> THEN series ELSE (d :> v[1]) @@ series

LastDay == IF today >= HistStart THEN HistStart + HistDays ELSE FreshStart + MaxDays

\* A day passes upstream (Yahoo Finance, alternative.me), outside the program.
NewDay(e) ==
    /\ today < LastDay
    /\ today' = today + 1
    /\ btc' = Put(btc, today + 1, e.btc)
    /\ eth' = Put(eth, today + 1, e.eth)
    /\ fng' = Put(fng, today + 1, e.fng)
    /\ UNCHANGED <<cache, fetched, clicked, weekly, outcome, status, report>>

\* Variant of AfterButton in which the button leaves the memo alone.
AfterButton_KeepsMemo(click) == cache

\* Lines 44-45: the Refresh button clears the memo.
AfterButton(click) == IF click THEN <<>> ELSE cache

\* Lines 47-48 and 93: load_data() under st.cache_data returns the memoized
\* table if there is one, and otherwise runs its body on what it fetches now.
\* fngOk: whether the request of fetch_fng() succeeds, should the body run.
CachedLoadData(memo, fngOk) ==
    IF memo # <<>> THEN memo[1] ELSE load_data(btc, eth, fngOk, fng)

Fetched(memo, fngOk) ==
    IF memo # <<>> THEN fetched
    ELSE <<[btc |-> btc, eth |-> eth, fng |-> fng, fngOk |-> fngOk]>>

\* One execution of the script, lines 41-146.
Execute(click, fngOk) ==
    /\ (AfterButton(click) # <<>>) => fngOk
    /\ clicked' = click
    /\ weekly' = CachedLoadData(AfterButton(click), fngOk)
    /\ cache' = <<weekly'>>
    /\ fetched' = Fetched(AfterButton(click), fngOk)
    /\ IF IlocLastRaises(weekly')
       THEN /\ outcome' = "IndexError"
            /\ status' = ""
            /\ report' = <<>>
       ELSE /\ outcome' = "ok"
            /\ status' = Status(weekly'[Len(weekly')])
            /\ report' = RecentOverheat(weekly')
    /\ UNCHANGED <<btc, eth, fng, today>>

Next ==
    \/ \E e \in DayEvents : NewDay(e)
    \/ \E click \in BOOLEAN, fngOk \in BOOLEAN : Execute(click, fngOk)

Spec == Init /\ [][Next]_vars

\* ==================================================================== claims
Executed == outcome # "idle"

\* t[a][field] + ... + t[b][field], for a <= b.
RECURSIVE FieldSum(_, _, _, _)
FieldSum(t, field, a, b) ==
    IF a = b THEN t[a][field]
    ELSE LET m == (a + b) \div 2
         IN  RatAdd(FieldSum(t, field, a, m), FieldSum(t, field, m + 1, b))

\* The trailing MIN_FG_WEEKS-week sentiment mean of row i is undefined: the
\* window reaches before the first row or holds an undefined sentiment.
FgWindowUndefined(t, i) ==
    \/ i < MIN_FG_WEEKS
    \/ \E j \in (i - MIN_FG_WEEKS + 1)..i : t[j].fng = NaN

FgMeanAtLeast(t, i) ==
    /\ ~FgWindowUndefined(t, i)
    /\ RatLE(RatInt(FG_OVERHEAT),
             RatDiv(RatAdd(t[i - 2].fng, RatAdd(t[i - 1].fng, t[i].fng)), RatInt(3)))

\* volatility[i] exceeds the median of the volatilities defined up to row i.
\* One of n numbers exceeds their median exactly when at least half of them
\* are smaller than it.
AboveMedian(t, i) ==
    /\ t[i].volatility # NaN
    /\ LET defined == {j \in 1..i : t[j].volatility # NaN}
           below == {j \in defined : RatLT(t[j].volatility, t[i].volatility)}
       IN  2 * Cardinality(below) >= Cardinality(defined)

StretchAtLeastHalf(t, i) == t[i].stretch # NaN /\ RatLE(<<1, 2>>, t[i].stretch)

\* C1: a weekly row whose trailing 3-week sentiment mean, stretch or
\* volatility is undefined has overheat = false (a boolean, never true and
\* never undefined), whatever the other two inputs are.
C1_UndefinedInputNotOverheated ==
    \A i \in DOMAIN weekly :
        (\/ FgWindowUndefined(weekly, i)
         \/ weekly[i].stretch = NaN
         \/ weekly[i].volatility = NaN) => weekly[i].overheat = FALSE

\* A row whose sentiment mean is undefined while stretch and volatility
\* alone would qualify it.
C1_Witness ==
    /\ Executed
    /\ \E i \in DOMAIN weekly :
           /\ FgWindowUndefined(weekly, i)
           /\ StretchAtLeastHalf(weekly, i)
           /\ AboveMedian(weekly, i)
           /\ weekly[i].overheat = FALSE

\* C2: overheat[w] is true exactly when the mean sentiment of the 3 rows
\* ending at w is >= 80, stretch[w] >= 0.5 and volatility[w] is strictly
\* above the median of all volatilities defined up to and including w.
C2_OverheatIff ==
    \A i \in DOMAIN weekly :
        weekly[i].overheat <=>
            (/\ FgMeanAtLeast(weekly, i)
             /\ StretchAtLeastHalf(weekly, i)
             /\ AboveMedian(weekly, i))

\* An overheated row whose sentiment mean is exactly 80.
C2_Witness ==
    /\ Executed
    /\ \E i \in DOMAIN weekly :
           /\ weekly[i].overheat
           /\ i >= MIN_FG_WEEKS
           /\ \A j \in (i - 2)..i : weekly[j].fng = RatInt(FG_OVERHEAT)

ExpectedStatus(r) ==
    IF r.overheat THEN "OVERHEATED"
    ELSE IF /\ r.stretch # NaN
            /\ r.fng # NaN
            /\ RatLT(<<1, 5>>, r.stretch)
            /\ RatLT(RatInt(60), r.fng)
         THEN "WARM"
    ELSE "COOL"

ScenarioRow(stretch, sentiment) ==
    [week_end |-> DAYS_PER_WEEK, index |-> RatInt(1), returns |-> NaN,
     volatility |-> NaN, fng |-> sentiment, trend |-> NaN, stretch |-> stretch,
     overheat |-> FALSE]

\* C3: the status of the latest row is OVERHEATED if it is overheated, else
\* WARM if stretch > 0.20 and sentiment > 60, else COOL; stretch 0.25 with
\* sentiment 65 gives WARM, an undefined stretch or sentiment gives COOL.
C3_StatusOfLatest ==
    /\ (Executed /\ Len(weekly) > 0) =>
           /\ outcome = "ok"
           /\ status = ExpectedStatus(weekly[Len(weekly)])
    /\ Status(ScenarioRow(<<1, 4>>, RatInt(65))) = "WARM"
    /\ Status(ScenarioRow(NaN, RatInt(65))) = "COOL"
    /\ Status(ScenarioRow(<<1, 4>>, NaN)) = "COOL"

\* An execution that showed WARM.
C3_Witness == outcome = "ok" /\ status = "WARM"

\* C4: with an empty daily input (an empty weekly table) the status and the
\* report end with a "no data" outcome, not with an unhandled error.
C4_EmptyInputHandled ==
    (Executed /\ Len(weekly) = 0) => outcome # "IndexError"

SentimentUnavailable == fetched # <<>> /\ FetchRaises(fetched[1].fngOk, fetched[1].fng)

\* C5: when the sentiment source is unavailable, every row has sentiment 50
\* and the status computation succeeds on that table.
C5_FallbackAndStatus ==
    SentimentUnavailable =>
        /\ \A i \in DOMAIN weekly : weekly[i].fng = RatInt(NEUTRAL_FNG)
        /\ outcome = "ok"

\* The samples of the fetched sentiment feed in the week that ends on w.
SamplesOf(w) == {d \in DOMAIN fetched[1].fng : WeekEnd(d) = w}

\* C6: when the feed has a sample, every row at or after the first week with
\* a sample has a sentiment: the mean of its week's samples or, without any,
\* the value of the latest earlier week that has one.
C6_NoGapAfterFirstSample ==
    (fetched # <<>> /\ ~SentimentUnavailable) =>
        \A i \in DOMAIN weekly :
            LET sampled == {w \in {WeekEnd(d) : d \in DOMAIN fetched[1].fng} :
                               w <= weekly[i].week_end}
            IN  sampled # {} =>
                    /\ weekly[i].fng # NaN
                    /\ weekly[i].fng =
                           Rat(IntSum(fetched[1].fng, SamplesOf(SetMax(sampled))),
                               Cardinality(SamplesOf(SetMax(sampled))))

\* C7: trend and stretch are undefined before the 52nd row; from it on trend
\* is the mean of index over the 52 rows ending at the row and stretch is
\* (index - trend) / trend.
C7_TrendAndStretch ==
    \A i \in DOMAIN weekly :
        IF i < WEEKLY_TREND_WINDOW
        THEN weekly[i].trend = NaN /\ weekly[i].stretch = NaN
        ELSE /\ weekly[i].trend # NaN
             /\ RatMul(weekly[i].trend, RatInt(WEEKLY_TREND_WINDOW))
                    = FieldSum(weekly, "index", i - WEEKLY_TREND_WINDOW + 1, i)
             /\ weekly[i].stretch # NaN
             /\ RatMul(weekly[i].stretch, weekly[i].trend)
                    = RatSub(weekly[i].index, weekly[i].trend)

\* A table with a row after the 52nd whose index differs from its trend.
C7_Witness ==
    /\ Executed
    /\ Len(weekly) > WEEKLY_TREND_WINDOW
    /\ weekly[Len(weekly)].stretch # NaN
    /\ weekly[Len(weekly)].stretch # RatInt(0)

RECURSIVE SumSqDev(_, _, _, _)
SumSqDev(t, a, b, mean) ==
    IF a = b THEN RatMul(RatSub(t[a].returns, mean), RatSub(t[a].returns, mean))
    ELSE LET m == (a + b) \div 2
         IN  RatAdd(SumSqDev(t, a, m, mean), SumSqDev(t, m + 1, b, mean))

\* Square of the annualized sample standard deviation of returns[a..b].
AnnualizedVariance(t, a, b) ==
    LET n == b - a + 1
        mean == RatDiv(FieldSum(t, "returns", a, b), RatInt(n))
    IN  RatMul(RatInt(52), RatDiv(SumSqDev(t, a, b, mean), RatInt(n - 1)))

\* C8: returns is undefined for the first row and index / previous index - 1
\* afterwards; volatility is undefined up to the 26th row and from the 27th
\* row (the 26th return) on is the standard deviation of the 26 returns
\* ending at the row, times the square root of 52.
C8_ReturnsAndVolatility ==
    \A i \in DOMAIN weekly :
        /\ IF i = 1 THEN weekly[i].returns = NaN
           ELSE /\ weekly[i].returns # NaN
                /\ RatMul(RatAdd(weekly[i].returns, RatInt(1)), weekly[i - 1].index)
                       = weekly[i].index
        /\ IF i <= WEEKLY_VOL_WINDOW THEN weekly[i].volatility = NaN
           ELSE /\ weekly[i].volatility # NaN
                /\ weekly[i].volatility
                       = AnnualizedVariance(weekly, i - WEEKLY_VOL_WINDOW + 1, i)

\* A table with a volatility that is defined and not zero.
C8_Witness ==
    /\ Executed
    /\ \E i \in DOMAIN weekly :
           weekly[i].volatility # NaN /\ weekly[i].volatility # RatInt(0)

\* The days of the fetched input on which the composite index is defined.
IndexDays == DOMAIN fetched[1].btc \cap DOMAIN fetched[1].eth

\* C9: one row per Friday-ending week that holds a day with both closes and
\* no other row, in strictly increasing order; index is 0.65 * btc close +
\* 0.35 * eth close of the last such day of the week.
C9_WeeklyRows ==
    fetched # <<>> =>
        /\ {weekly[i].week_end : i \in DOMAIN weekly} = {WeekEnd(d) : d \in IndexDays}
        /\ \A i \in DOMAIN weekly :
               /\ i > 1 => weekly[i - 1].week_end < weekly[i].week_end
               /\ weekly[i].week_end % DAYS_PER_WEEK = 0
               /\ LET d == SetMax({x \in IndexDays : WeekEnd(x) = weekly[i].week_end})
                  IN  weekly[i].index
                          = Rat(65 * fetched[1].btc[d] + 35 * fetched[1].eth[d], 100)

\* A table built from an input with a week without any index day between two
\* rows, and a row whose week ends with a day that has a BTC close only.
C9_Witness ==
    /\ fetched # <<>>
    /\ \E i \in DOMAIN weekly :
           /\ i > 1
           /\ weekly[i].week_end - weekly[i - 1].week_end > DAYS_PER_WEEK
    /\ \E i \in DOMAIN weekly :
           \E d \in DOMAIN fetched[1].btc \ DOMAIN fetched[1].eth :
               /\ WeekEnd(d) = weekly[i].week_end
               /\ \A x \in IndexDays : WeekEnd(x) = WeekEnd(d) => x < d

FetchedNow ==
    /\ fetched' # <<>>
    /\ fetched'[1].btc = btc
    /\ fetched'[1].eth = eth
    /\ fetched'[1].fng = fng

\* C10: an execution with a Refresh click uses a table rebuilt in full from
\* the input it fetches itself; one without a click reuses the memoized table
\* of the latest recomputation unchanged (or builds one if there is none); a
\* table in use is always a full rebuild of one fetched input.
C10_RefreshRebuilds ==
    [][(today' = today) =>
           /\ FetchedNow \/ (~clicked' /\ cache # <<>>)
           /\ (~clicked' /\ cache # <<>>) =>
                  /\ weekly' = cache[1]
                  /\ fetched' = fetched
                  /\ cache' = cache
           /\ weekly' = load_data(fetched'[1].btc, fetched'[1].eth,
                                  fetched'[1].fngOk, fetched'[1].fng)]_vars

\* A click after the upstream data changed: the table in use is newer than
\* the one the previous execution used.
C10_Witness ==
    /\ clicked
    /\ fetched # <<>>
    /\ fetched[1].btc = btc
    /\ today > FreshStart
    /\ today # HistStart
    /\ Len(weekly) > 0

====
